---- MODULE Spec2Model ----
(***************************************************************************)
(* Madison Metro GTFS-Realtime proxy (src/index.js).                       *)
(*                                                                         *)
(* Three feed handlers (/realtime/trip-updates, /realtime/vehicle-         *)
(* positions, /realtime/service-alerts) fetch up to three upstream URLs in *)
(* turn, decode the first 2xx body and answer 200 with the decoded feed,   *)
(* or answer 404 from their catch block.  /discover-urls probes nine URLs  *)
(* and reports a status per URL plus a recommended URL per feed type.      *)
(*                                                                         *)
(* A request is a little process: every `await` of the handler is a point  *)
(* where it is suspended, and one action of the model is the code that     *)
(* runs from one await to the next.  What every upstream URL answers to a  *)
(* request is chosen when the request arrives (upstream[r]).               *)
(***************************************************************************)
EXTENDS Integers, Sequences, FiniteSets, TLC

\* How many requests are handled, concurrently, in a run of ConcSpec.
MaxRequests == 2

Requests == 1 .. MaxRequests

(***************************************************************************)
(* Strings: String.prototype.toLowerCase and String.prototype.includes.    *)
(***************************************************************************)
UpperToLower ==
  [c \in {"A", "B", "C", "D", "E", "F", "G", "H", "I", "J", "K", "L", "M",
          "N", "O", "P", "Q", "R", "S", "T", "U", "V", "W", "X", "Y", "Z"} |->
     CASE c = "A" -> "a" [] c = "B" -> "b" [] c = "C" -> "c" [] c = "D" -> "d"
       [] c = "E" -> "e" [] c = "F" -> "f" [] c = "G" -> "g" [] c = "H" -> "h"
       [] c = "I" -> "i" [] c = "J" -> "j" [] c = "K" -> "k" [] c = "L" -> "l"
       [] c = "M" -> "m" [] c = "N" -> "n" [] c = "O" -> "o" [] c = "P" -> "p"
       [] c = "Q" -> "q" [] c = "R" -> "r" [] c = "S" -> "s" [] c = "T" -> "t"
       [] c = "U" -> "u" [] c = "V" -> "v" [] c = "W" -> "w" [] c = "X" -> "x"
       [] c = "Y" -> "y" [] c = "Z" -> "z"]

RECURSIVE LowerFrom(_, _)
LowerFrom(s, i) ==
  IF i > Len(s) THEN ""
  ELSE LET c == SubSeq(s, i, i)
       IN (IF c \in DOMAIN UpperToLower THEN UpperToLower[c] ELSE c)
            \o LowerFrom(s, i + 1)

(***************************************************************************)
(* The upstream URLs, as the handlers name them.                           *)
(***************************************************************************)
TripUpdatesUrls ==
  << "https://transitdata.cityofmadison.com/TripUpdates.pb",
     "https://transitdata.cityofmadison.com/gtfs-rt/TripUpdates.pb",
     "https://transitdata.cityofmadison.com/gtfsrt/TripUpdate/TripUpdate.pb" >>

VehiclePositionsUrls ==
  << "https://transitdata.cityofmadison.com/VehiclePositions.pb",
     "https://transitdata.cityofmadison.com/gtfs-rt/VehiclePositions.pb",
     "https://transitdata.cityofmadison.com/gtfsrt/VehiclePosition/VehiclePosition.pb" >>

ServiceAlertsUrls ==
  << "https://transitdata.cityofmadison.com/Alerts.pb",
     "https://transitdata.cityofmadison.com/gtfs-rt/Alerts.pb",
     "https://transitdata.cityofmadison.com/gtfsrt/Alert/Alert.pb" >>

urlPatterns ==
  << "https://transitdata.cityofmadison.com/TripUpdates.pb",
     "https://transitdata.cityofmadison.com/VehiclePositions.pb",
     "https://transitdata.cityofmadison.com/Alerts.pb",
     "https://transitdata.cityofmadison.com/gtfs-rt/TripUpdates.pb",
     "https://transitdata.cityofmadison.com/gtfs-rt/VehiclePositions.pb",
     "https://transitdata.cityofmadison.com/gtfs-rt/Alerts.pb",
     "https://transitdata.cityofmadison.com/gtfsrt/TripUpdate/TripUpdate.pb",
     "https://transitdata.cityofmadison.com/gtfsrt/VehiclePosition/VehiclePosition.pb",
     "https://transitdata.cityofmadison.com/gtfsrt/Alert/Alert.pb" >>

\* The lower-cased form of every configured URL, computed once.
LowerCased ==
  [s \in {urlPatterns[i] : i \in DOMAIN urlPatterns} |-> LowerFrom(s, 1)]

\* A slip: the filter forgets to lower-case the URL.
toLowerCaseOmitted(s) == s

\* LowerFrom(s, 1), looked up for the strings in LowerCased.
toLowerCase(s) == IF s \in DOMAIN LowerCased THEN LowerCased[s] ELSE LowerFrom(s, 1)

includes(s, part) ==
  \E i \in 1 .. (Len(s) - Len(part) + 1) : SubSeq(s, i, i + Len(part) - 1) = part

TripUpdates == "/realtime/trip-updates"
VehiclePositions == "/realtime/vehicle-positions"
ServiceAlerts == "/realtime/service-alerts"
DiscoverUrls == "/discover-urls"

FeedEndpoints == {TripUpdates, VehiclePositions, ServiceAlerts}

\* The candidate list of a feed handler: its first, alternate and third URL.
Candidates(e) ==
  CASE e = TripUpdates -> TripUpdatesUrls
    [] e = VehiclePositions -> VehiclePositionsUrls
    [] e = ServiceAlerts -> ServiceAlertsUrls

\* The alternate and the third URL swapped.
UrlAtSwapped(e, k) == Candidates(e)[IF k = 1 THEN 1 ELSE 5 - k]

\* The URL the handler of e fetches at nesting level k.
UrlAt(e, k) == Candidates(e)[k]

Range(seq) == {seq[i] : i \in DOMAIN seq}

(***************************************************************************)
(* node-fetch: what one fetch(url, {headers, timeout}) can end in.  The    *)
(* promise resolves with a response (any status) or rejects with an error  *)
(* (timeout, connection or DNS failure).                                   *)
(***************************************************************************)
StatusText(status) ==
  CASE status = 200 -> "OK"
    [] status = 404 -> "Not Found"
    [] status = 503 -> "Service Unavailable"

\* response.ok
ok(status) == status >= 200 /\ status < 300

\* A message: its fixed text and the status codes interpolated into it.
Message(text, codes) == [text |-> text, codes |-> codes]

\* What an upstream URL answers: a status with a body, or nothing in time.
Statuses == {200, 404, 503}
Bodies == {"pbA", "pbB", "junk", "truncated"}
Http(status, body) == <<"http", status, body>>
Timeout == <<"timeout", 0, "">>
FeedAnswers ==
  {Http(s, b) : s \in {st \in Statuses : ok(st)}, b \in Bodies}
    \cup {Http(s, "") : s \in {st \in Statuses : ~ok(st)}}
    \cup {Timeout}
ProbeAnswers == {Http(200, "pbA"), Http(404, ""), Timeout}

\* The outcome of fetch(url) when the upstream answers a.
Outcome(a, url) ==
  IF a[1] = "timeout"
    THEN [kind |-> "error",
          message |-> Message("network timeout at: " \o url, << >>)]
    ELSE [kind |-> "response", status |-> a[2], statusText |-> StatusText(a[2]),
          body |-> a[3]]

UpstreamsOver(urls, answers) ==
  {[u \in urls |-> Outcome(g[u], u)] : g \in [urls -> answers]}

\* Every assignment of outcomes to the URLs an endpoint fetches.
Upstreams(e) ==
  IF e = DiscoverUrls THEN UpstreamsOver(Range(urlPatterns), ProbeAnswers)
  ELSE UpstreamsOver(Range(Candidates(e)), FeedAnswers)

\* For the concurrent runs: states of the upstream server, given as the
\* answer of each of the three URL patterns (plain, gtfs-rt/, gtfsrt/).  The
\* feed scenarios take a handler down each of its paths; /discover-urls
\* reads no body, and its scenarios differ in which patterns work.
FeedScenarios ==
  { << Http(404, ""), Http(404, ""), Http(503, "") >>,
    << Http(404, ""), Http(200, "pbB"), Timeout >>,
    << Timeout, Http(200, "pbA"), Http(200, "junk") >>,
    << Http(200, "junk"), Http(200, "pbA"), Http(404, "") >>,
    << Http(200, "truncated"), Http(503, ""), Http(200, "pbA") >> }
ProbeScenarios ==
  { << Http(404, ""), Http(404, ""), Http(503, "") >>,
    << Http(404, ""), Http(200, "pbB"), Timeout >>,
    << Timeout, Http(200, "pbA"), Http(200, "junk") >> }

IndexOf(seq, x) == CHOOSE i \in DOMAIN seq : seq[i] = x

\* The upstream in which every URL of the i-th pattern answers sc[i].
ByPattern(e, sc) ==
  IF e = DiscoverUrls
    THEN [u \in Range(urlPatterns) |->
            Outcome(sc[(IndexOf(urlPatterns, u) - 1) \div Len(TripUpdatesUrls) + 1], u)]
    ELSE [u \in Range(Candidates(e)) |-> Outcome(sc[IndexOf(Candidates(e), u)], u)]

ConcUpstreams(e) ==
  {ByPattern(e, sc) : sc \in IF e = DiscoverUrls THEN ProbeScenarios ELSE FeedScenarios}

\* For the fair runs: /discover-urls with every assignment of answers to the
\* three URL patterns.
PatternUpstreams(e) ==
  {ByPattern(e, sc) : sc \in [DOMAIN TripUpdatesUrls -> ProbeAnswers]}

(***************************************************************************)
(* gtfs-realtime-bindings: FeedMessage.decode(bytes) returns the message   *)
(* or throws.  "pbA" and "pbB" are two well-formed payloads, every other   *)
(* byte string is malformed.                                               *)
(***************************************************************************)
FeedMessage(id) ==
  [header |-> [gtfsRealtimeVersion |-> "2.0"], entity |-> << [id |-> id] >>]

\* A lenient decoder: malformed bytes give an empty message.
decodeLenient(bytes) ==
  CASE bytes = "pbA" -> [thrown |-> FALSE, feed |-> FeedMessage("A")]
    [] bytes = "pbB" -> [thrown |-> FALSE, feed |-> FeedMessage("B")]
    [] OTHER -> [thrown |-> FALSE, feed |-> [header |-> [gtfsRealtimeVersion |-> ""],
                                            entity |-> << >>]]

decode(bytes) ==
  CASE bytes = "pbA" -> [thrown |-> FALSE, feed |-> FeedMessage("A")]
    [] bytes = "pbB" -> [thrown |-> FALSE, feed |-> FeedMessage("B")]
    [] OTHER -> [thrown |-> TRUE, message |-> Message("index out of range", << >>)]

\* response.arrayBuffer(): the bytes, or a rejection when the body stream breaks.
arrayBuffer(response) ==
  IF response.body = "truncated"
    THEN [thrown |-> TRUE, message |-> Message("Invalid response body: Premature close", << >>)]
    ELSE [thrown |-> FALSE, bytes |-> response.body]

(***************************************************************************)
(* A JavaScript object with string keys: its properties in insertion       *)
(* order, which is the order of Object.keys.                               *)
(***************************************************************************)
ObjKeys(obj) == [i \in DOMAIN obj |-> obj[i][1]]
ObjHas(obj, key) == \E i \in DOMAIN obj : obj[i][1] = key
ObjGet(obj, key) == obj[CHOOSE i \in DOMAIN obj : obj[i][1] = key][2]
ObjSet(obj, key, value) ==
  IF ObjHas(obj, key)
    THEN [i \in DOMAIN obj |-> IF obj[i][1] = key THEN <<key, value>> ELSE obj[i]]
    ELSE Append(obj, <<key, value>>)

(***************************************************************************)
(* The replies of the feed handlers.                                       *)
(***************************************************************************)
FeedLabel(e) ==
  CASE e = TripUpdates -> "trip updates"
    [] e = VehiclePositions -> "vehicle positions"
    [] e = ServiceAlerts -> "service alerts"

\* throw new Error(`All Madison Metro ... URLs failed. Status codes: ...`)
AllFailed(e, rs) ==
  Message("All Madison Metro " \o FeedLabel(e) \o " URLs failed. Status codes: ",
          [i \in DOMAIN rs |-> rs[i].status])

\* A slip: the catch block forgets .status(404).
CatchReplyNoStatus(e, err) ==
  [status |-> 200, body |-> [error |-> "Failed", status |-> 404,
                             message |-> "Not Found", details |-> err]]

\* The catch block: res.status(404).json({error, status, message, details}).
CatchReply(e, err) ==
  [status |-> 404,
   body |-> [error |-> CASE e = TripUpdates -> "Failed to retrieve data from Madison Metro API"
                         [] e = VehiclePositions -> "Failed to retrieve vehicle positions data"
                         [] e = ServiceAlerts -> "Failed to retrieve service alerts data",
             status |-> 404, message |-> "Not Found", details |-> err]]

\* res.json(feed)
FeedReply(feed) == [status |-> 200, body |-> feed]

\* A slip: the reply is never written.
SendNothing(replies, reply) == replies

\* res.json(...) writes one reply to the client.
Send(replies, reply) == Append(replies, reply)

(***************************************************************************)
(* /discover-urls: the entry of one URL and the final report.              *)
(***************************************************************************)
\* A slip: a probe that threw is reported as working.
ProbeEntryErrorWorking(o) ==
  IF o.kind = "response"
    THEN [status |-> o.status, statusText |-> o.statusText, working |-> ok(o.status)]
    ELSE [status |-> "error", statusText |-> o.message.text, working |-> TRUE]

ProbeEntry(o) ==
  IF o.kind = "response"
    THEN [status |-> o.status, statusText |-> o.statusText, working |-> ok(o.status)]
    ELSE [status |-> "error", statusText |-> o.message.text, working |-> FALSE]

\* Object.keys(results).filter(url => results[url].working &&
\*                                    url.toLowerCase().includes(part))
WorkingWith(res, part) ==
  SelectSeq(ObjKeys(res),
            LAMBDA url : ObjGet(res, url).working /\ includes(toLowerCase(url), part))

\* list[0] || 'None found'
FirstOr(list, default) ==
  IF Len(list) = 0 \/ list[1] = "" THEN default ELSE list[1]

DiscoverReply(res) ==
  LET workingUrls ==
        [tripUpdates |-> WorkingWith(res, "tripupdate"),
         vehiclePositions |-> WorkingWith(res, "vehicleposition"),
         alerts |-> WorkingWith(res, "alert")]
  IN [status |-> 200,
      body |-> [message |-> "URL discovery results",
                urlChecks |-> res,
                workingUrls |-> workingUrls,
                recommendedEndpoints |->
                  [tripUpdates |-> FirstOr(workingUrls.tripUpdates, "None found"),
                   vehiclePositions |-> FirstOr(workingUrls.vehiclePositions, "None found"),
                   alerts |-> FirstOr(workingUrls.alerts, "None found")]]]

(***************************************************************************)
(* State.  Everything is per request: the handlers keep no module-level    *)
(* state.                                                                  *)
(***************************************************************************)
VARIABLES
  endpoint,   \* endpoint[r]: the path requested, "" before the request arrives
  upstream,   \* upstream[r][url]: how fetch(url) ends for request r
  pc,         \* pc[r]: "idle", "fetch" (await fetch), "body" (await
              \*        arrayBuffer), "probe" (await fetch in /discover-urls), "done"
  attempt,    \* attempt[r]: which fetch of the handler is awaited (1, 2, 3; 1..9)
  responses,  \* responses[r]: response, altResponse, thirdResponse, as received
  results,    \* results[s]: the `results` object of /discover-urls
  inflight,   \* inflight[r]: the fetches issued for r and not yet settled
  fetched,    \* fetched[r]: the URLs fetched for r, in call order
  sent        \* sent[r]: the replies written to the client of r

vars == <<endpoint, upstream, pc, attempt, responses, results, inflight, fetched, sent>>

\* A slip: `results` declared at module level, shared by all requests.
ResultsScopeModule(r) == 1

\* `const results = {}` is a local of the handler: one object per request.
ResultsScope(r) == r

Init ==
  /\ endpoint = [r \in Requests |-> ""]
  /\ upstream = [r \in Requests |-> << >>]
  /\ pc = [r \in Requests |-> "idle"]
  /\ attempt = [r \in Requests |-> 0]
  /\ responses = [r \in Requests |-> << >>]
  /\ results = [r \in Requests |-> << >>]
  /\ inflight = [r \in Requests |-> << >>]
  /\ fetched = [r \in Requests |-> << >>]
  /\ sent = [r \in Requests |-> << >>]

(***************************************************************************)
(* Feed handlers.                                                          *)
(***************************************************************************)
\* The request arrives; the handler calls fetch on its first URL and awaits.
ReceiveFeed(r, e, u) ==
  /\ pc[r] = "idle"
  /\ endpoint' = [endpoint EXCEPT ![r] = e]
  /\ upstream' = [upstream EXCEPT ![r] = u]
  /\ attempt' = [attempt EXCEPT ![r] = 1]
  /\ inflight' = [inflight EXCEPT ![r] = Append(@, UrlAt(e, 1))]
  /\ fetched' = [fetched EXCEPT ![r] = Append(@, UrlAt(e, 1))]
  /\ pc' = [pc EXCEPT ![r] = "fetch"]
  /\ UNCHANGED <<responses, results, sent>>

\* The awaited fetch of request r, and how it ends.
Awaited(r) == Head(inflight[r])
Settled(r) == upstream[r][Awaited(r)]

\* await fetch(...) rejects: the exception goes to the handler's catch block.
FeedFetchThrows(r) ==
  /\ pc[r] = "fetch"
  /\ Settled(r).kind = "error"
  /\ inflight' = [inflight EXCEPT ![r] = Tail(@)]
  /\ sent' = [sent EXCEPT ![r] = Send(@, CatchReply(endpoint[r], Settled(r).message))]
  /\ pc' = [pc EXCEPT ![r] = "done"]
  /\ UNCHANGED <<endpoint, upstream, attempt, responses, results, fetched>>

\* The response is not ok and a URL remains: fetch the next one and await.
FeedFallback(r) ==
  /\ pc[r] = "fetch"
  /\ Settled(r).kind = "response"
  /\ ~ok(Settled(r).status)
  /\ attempt[r] < Len(Candidates(endpoint[r]))
  /\ responses' = [responses EXCEPT ![r] = Append(@, Settled(r))]
  /\ attempt' = [attempt EXCEPT ![r] = @ + 1]
  /\ inflight' = [inflight EXCEPT ![r] = Append(Tail(@), UrlAt(endpoint[r], attempt[r] + 1))]
  /\ fetched' = [fetched EXCEPT ![r] = Append(@, UrlAt(endpoint[r], attempt[r] + 1))]
  /\ UNCHANGED <<endpoint, upstream, pc, results, sent>>

\* The third response is not ok: throw new Error(`All ... failed`), caught.
FeedExhausted(r) ==
  /\ pc[r] = "fetch"
  /\ Settled(r).kind = "response"
  /\ ~ok(Settled(r).status)
  /\ attempt[r] = Len(Candidates(endpoint[r]))
  /\ responses' = [responses EXCEPT ![r] = Append(@, Settled(r))]
  /\ inflight' = [inflight EXCEPT ![r] = Tail(@)]
  /\ sent' = [sent EXCEPT ![r] =
                Send(@, CatchReply(endpoint[r],
                                   AllFailed(endpoint[r], Append(responses[r], Settled(r)))))]
  /\ pc' = [pc EXCEPT ![r] = "done"]
  /\ UNCHANGED <<endpoint, upstream, attempt, results, fetched>>

\* The response is ok: await response.arrayBuffer().
FeedFetchOk(r) ==
  /\ pc[r] = "fetch"
  /\ Settled(r).kind = "response"
  /\ ok(Settled(r).status)
  /\ responses' = [responses EXCEPT ![r] = Append(@, Settled(r))]
  /\ inflight' = [inflight EXCEPT ![r] = Tail(@)]
  /\ pc' = [pc EXCEPT ![r] = "body"]
  /\ UNCHANGED <<endpoint, upstream, attempt, results, fetched, sent>>

\* The ok response whose body the handler reads: the last one received.
OkResponse(r) == responses[r][Len(responses[r])]

\* await arrayBuffer() rejects: caught.
FeedBodyThrows(r) ==
  /\ pc[r] = "body"
  /\ arrayBuffer(OkResponse(r)).thrown
  /\ sent' = [sent EXCEPT ![r] =
                Send(@, CatchReply(endpoint[r], arrayBuffer(OkResponse(r)).message))]
  /\ pc' = [pc EXCEPT ![r] = "done"]
  /\ UNCHANGED <<endpoint, upstream, attempt, responses, results, inflight, fetched>>

\* FeedMessage.decode throws on the bytes: caught.
FeedDecodeThrows(r) ==
  /\ pc[r] = "body"
  /\ ~arrayBuffer(OkResponse(r)).thrown
  /\ decode(arrayBuffer(OkResponse(r)).bytes).thrown
  /\ sent' = [sent EXCEPT ![r] =
                Send(@, CatchReply(endpoint[r],
                                   decode(arrayBuffer(OkResponse(r)).bytes).message))]
  /\ pc' = [pc EXCEPT ![r] = "done"]
  /\ UNCHANGED <<endpoint, upstream, attempt, responses, results, inflight, fetched>>

\* The bytes decode: res.json(feed).
FeedDecoded(r) ==
  /\ pc[r] = "body"
  /\ ~arrayBuffer(OkResponse(r)).thrown
  /\ ~decode(arrayBuffer(OkResponse(r)).bytes).thrown
  /\ sent' = [sent EXCEPT ![r] =
                Send(@, FeedReply(decode(arrayBuffer(OkResponse(r)).bytes).feed))]
  /\ pc' = [pc EXCEPT ![r] = "done"]
  /\ UNCHANGED <<endpoint, upstream, attempt, responses, results, inflight, fetched>>

(***************************************************************************)
(* /discover-urls.                                                         *)
(***************************************************************************)
\* The request arrives: results = {}, and the loop fetches its first URL.
ReceiveDiscover(r, u) ==
  /\ pc[r] = "idle"
  /\ endpoint' = [endpoint EXCEPT ![r] = DiscoverUrls]
  /\ upstream' = [upstream EXCEPT ![r] = u]
  /\ results' = [results EXCEPT ![ResultsScope(r)] = << >>]
  /\ attempt' = [attempt EXCEPT ![r] = 1]
  /\ inflight' = [inflight EXCEPT ![r] = Append(@, urlPatterns[1])]
  /\ fetched' = [fetched EXCEPT ![r] = Append(@, urlPatterns[1])]
  /\ pc' = [pc EXCEPT ![r] = "probe"]
  /\ UNCHANGED <<responses, sent>>

\* A probe settles (resolved or rejected, the loop's try/catch records both)
\* and the loop fetches the next URL.
DiscoverProbe(r) ==
  /\ pc[r] = "probe"
  /\ attempt[r] < Len(urlPatterns)
  /\ results' = [results EXCEPT ![ResultsScope(r)] =
                   ObjSet(@, Awaited(r), ProbeEntry(Settled(r)))]
  /\ attempt' = [attempt EXCEPT ![r] = @ + 1]
  /\ inflight' = [inflight EXCEPT ![r] = Append(Tail(@), urlPatterns[attempt[r] + 1])]
  /\ fetched' = [fetched EXCEPT ![r] = Append(@, urlPatterns[attempt[r] + 1])]
  /\ UNCHANGED <<endpoint, upstream, pc, responses, sent>>

\* The last probe settles: the loop ends and the report is sent.
DiscoverReport(r) ==
  /\ pc[r] = "probe"
  /\ attempt[r] = Len(urlPatterns)
  /\ results' = [results EXCEPT ![ResultsScope(r)] =
                   ObjSet(@, Awaited(r), ProbeEntry(Settled(r)))]
  /\ inflight' = [inflight EXCEPT ![r] = Tail(@)]
  /\ sent' = [sent EXCEPT ![r] = Send(@, DiscoverReply(results'[ResultsScope(r)]))]
  /\ pc' = [pc EXCEPT ![r] = "done"]
  /\ UNCHANGED <<endpoint, upstream, attempt, responses, fetched>>

(***************************************************************************)
(* Specifications.                                                         *)
(***************************************************************************)
\* One step of the handler of request r.
Step(r) ==
  \/ FeedFetchThrows(r)
  \/ FeedFallback(r)
  \/ FeedExhausted(r)
  \/ FeedFetchOk(r)
  \/ FeedBodyThrows(r)
  \/ FeedDecodeThrows(r)
  \/ FeedDecoded(r)
  \/ DiscoverProbe(r)
  \/ DiscoverReport(r)

\* One request, with every assignment of outcomes to the URLs it may fetch.
Next ==
  \/ /\ pc[1] = "idle"
     /\ \E e \in FeedEndpoints : \E u \in Upstreams(e) : ReceiveFeed(1, e, u)
  \/ /\ pc[1] = "idle"
     /\ \E u \in Upstreams(DiscoverUrls) : ReceiveDiscover(1, u)
  \/ \E r \in Requests : Step(r)

Spec == Init /\ [][Next]_vars

\* One request; every fetch and every body read settles (node-fetch's timeout
\* bounds them), and the event loop then runs the handler's continuation.
FairNext ==
  \/ /\ pc[1] = "idle"
     /\ \E e \in FeedEndpoints : \E u \in Upstreams(e) : ReceiveFeed(1, e, u)
  \/ /\ pc[1] = "idle"
     /\ \E u \in PatternUpstreams(DiscoverUrls) : ReceiveDiscover(1, u)
  \/ \E r \in Requests : Step(r)

FairSpec == Init /\ [][FairNext]_vars /\ \A r \in Requests : WF_vars(Step(r))

\* MaxRequests requests handled concurrently, their steps interleaved at will.
ConcNext ==
  \/ \E r \in Requests :
       /\ pc[r] = "idle"
       /\ \E e \in FeedEndpoints : \E u \in ConcUpstreams(e) : ReceiveFeed(r, e, u)
  \/ \E r \in Requests :
       /\ pc[r] = "idle"
       /\ \E u \in ConcUpstreams(DiscoverUrls) : ReceiveDiscover(r, u)
  \/ \E r \in Requests : Step(r)

ConcSpec == Init /\ [][ConcNext]_vars

(***************************************************************************)
(* Vocabulary of the properties, stated on the upstream's answers and not  *)
(* through the handlers' own tests.                                        *)
(***************************************************************************)
IsFeed(r) == endpoint[r] \in FeedEndpoints
IsDiscover(r) == endpoint[r] = DiscoverUrls
Done(r) == pc[r] = "done"

\* The outcome of the k-th fetch request r made.
FetchOutcome(r, k) == upstream[r][fetched[r][k]]
\* The outcome the k-th candidate of r's feed has, or would have if fetched.
CandidateOutcome(r, k) == upstream[r][Candidates(endpoint[r])[k]]

HttpError(o) == o.kind = "response" /\ o.status \notin 200 .. 299
TransportError(o) == o.kind = "error"
Success(o) == o.kind = "response" /\ o.status \in 200 .. 299
Decodable(o) == Success(o) /\ o.body \in {"pbA", "pbB"}
Undecodable(o) == Success(o) /\ o.body = "junk"
DecodedFeed(o) == IF o.body = "pbA" THEN FeedMessage("A") ELSE FeedMessage("B")

(***************************************************************************)
(* C1.  In a feed handler the URLs fetched for one request are a prefix of *)
(* the feed's candidate list (none skipped, reordered or fetched twice, at *)
(* most as many fetches as candidates), and nothing is fetched after the   *)
(* first candidate that answered 2xx.                                      *)
(***************************************************************************)
C1_FetchesArePrefix ==
  \A r \in Requests :
    IsFeed(r) =>
      /\ Len(fetched[r]) <= Len(Candidates(endpoint[r]))
      /\ \A k \in DOMAIN fetched[r] : fetched[r][k] = Candidates(endpoint[r])[k]
      /\ \A k \in DOMAIN fetched[r] : k < Len(fetched[r]) => ~Success(FetchOutcome(r, k))

\* Candidates [A(fail), B(success), C(success)]: the request is answered and
\* exactly A and B were fetched.
C1_Witness ==
  \E r \in Requests :
    /\ IsFeed(r) /\ Done(r)
    /\ HttpError(CandidateOutcome(r, 1))
    /\ Decodable(CandidateOutcome(r, 2))
    /\ Decodable(CandidateOutcome(r, 3))
    /\ fetched[r] = SubSeq(Candidates(endpoint[r]), 1, 2)

(***************************************************************************)
(* C2.  When the fetch of a candidate that is not the last one ends in an  *)
(* HttpError or in a TransportError, the next candidate is fetched: the    *)
(* request is not answered while untried candidates remain.                *)
(***************************************************************************)
C2_FailureFallsBack ==
  \A r \in Requests :
    (IsFeed(r) /\ Done(r)) =>
      \A k \in DOMAIN fetched[r] :
        (k < Len(Candidates(endpoint[r]))
           /\ (HttpError(FetchOutcome(r, k)) \/ TransportError(FetchOutcome(r, k))))
          => Len(fetched[r]) > k

(***************************************************************************)
(* C3.  If some candidate of the feed would answer 2xx with decodable      *)
(* bytes, the request is answered 200 with a decoded feed, whatever the    *)
(* earlier candidates do.                                                  *)
(***************************************************************************)
C3_UsableCandidateGives200 ==
  \A r \in Requests :
    (IsFeed(r) /\ Done(r)
       /\ \E k \in DOMAIN Candidates(endpoint[r]) : Decodable(CandidateOutcome(r, k)))
      => /\ Len(sent[r]) = 1
         /\ sent[r][1].status = 200
         /\ \E k \in DOMAIN Candidates(endpoint[r]) :
              /\ Decodable(CandidateOutcome(r, k))
              /\ sent[r][1].body = DecodedFeed(CandidateOutcome(r, k))

(***************************************************************************)
(* C4.  If every candidate fails (non-2xx status or transport error), the  *)
(* reply is 404 and its details list one outcome per candidate, in list    *)
(* order.                                                                  *)
(***************************************************************************)
C4_ExhaustedListsEveryOutcome ==
  \A r \in Requests :
    (IsFeed(r) /\ Done(r)
       /\ \A k \in DOMAIN Candidates(endpoint[r]) :
            HttpError(CandidateOutcome(r, k)) \/ TransportError(CandidateOutcome(r, k)))
      => /\ Len(sent[r]) = 1
         /\ sent[r][1].status = 404
         /\ Len(sent[r][1].body.details.codes) = Len(Candidates(endpoint[r]))
         /\ \A k \in DOMAIN Candidates(endpoint[r]) :
              HttpError(CandidateOutcome(r, k))
                => sent[r][1].body.details.codes[k] = CandidateOutcome(r, k).status

(***************************************************************************)
(* C5.  A feed request is answered 200 only when the bytes of the          *)
(* candidate fetched last were decoded, and the body is that decoded feed; *)
(* a 2xx candidate with undecodable bytes never gives a 200.               *)
(***************************************************************************)
C5_OkOnlyAfterDecode ==
  \A r \in Requests :
    IsFeed(r) =>
      \A i \in DOMAIN sent[r] :
        sent[r][i].status = 200 =>
          /\ fetched[r] # << >>
          /\ Decodable(FetchOutcome(r, Len(fetched[r])))
          /\ sent[r][i].body = DecodedFeed(FetchOutcome(r, Len(fetched[r])))
          /\ \A k \in DOMAIN fetched[r] : ~Undecodable(FetchOutcome(r, k))

\* A candidate answered 2xx with undecodable bytes and the request was
\* answered, not with 200.
C5_Witness ==
  \E r \in Requests :
    /\ IsFeed(r) /\ Done(r)
    /\ \E k \in DOMAIN fetched[r] : Undecodable(FetchOutcome(r, k))
    /\ Len(sent[r]) = 1
    /\ sent[r][1].status # 200

(***************************************************************************)
(* C6, as claimed.  When a candidate that is not the last one answers 2xx  *)
(* with bytes that fail to decode, the next candidate is fetched before    *)
(* the request is answered.                                                *)
(***************************************************************************)
C6_DecodeFailureFallsBack ==
  \A r \in Requests :
    (IsFeed(r) /\ Done(r)) =>
      \A k \in DOMAIN fetched[r] :
        (k < Len(Candidates(endpoint[r])) /\ Undecodable(FetchOutcome(r, k)))
          => Len(fetched[r]) > k

(***************************************************************************)
(* C6, amended.  When a candidate answers 2xx with bytes that fail to      *)
(* decode, the fallback chain ends there: no further candidate is fetched, *)
(* and the request is answered once, with 404 and the decoder's message as *)
(* details.                                                                *)
(***************************************************************************)
C6_DecodeFailureEndsChain ==
  \A r \in Requests :
    IsFeed(r) =>
      \A k \in DOMAIN fetched[r] :
        Undecodable(FetchOutcome(r, k)) =>
          /\ Len(fetched[r]) = k
          /\ Done(r) =>
               /\ Len(sent[r]) = 1
               /\ sent[r][1].status = 404
               /\ sent[r][1].body.details = Message("index out of range", << >>)

\* The first candidate answered 2xx with undecodable bytes, the second would
\* have answered with a decodable feed, and the request was answered.
C6_Witness ==
  \E r \in Requests :
    /\ IsFeed(r) /\ Done(r)
    /\ Undecodable(CandidateOutcome(r, 1))
    /\ Decodable(CandidateOutcome(r, 2))
    /\ Len(fetched[r]) = 1

(***************************************************************************)
(* C7.  The recommended endpoint /discover-urls reports for a feed type is *)
(* the first URL of that feed handler's candidate list whose probe         *)
(* answered 2xx, or 'None found' when none did.                            *)
(***************************************************************************)
FirstWorking(u, list) ==
  IF \E k \in DOMAIN list : Success(u[list[k]])
    THEN list[CHOOSE k \in DOMAIN list :
                /\ Success(u[list[k]])
                /\ \A j \in 1 .. (k - 1) : ~Success(u[list[j]])]
    ELSE "None found"

C7_RecommendedIsFirstWorking ==
  \A r \in Requests :
    (IsDiscover(r) /\ Done(r)) =>
      /\ Len(sent[r]) = 1
      /\ sent[r][1].body.recommendedEndpoints.tripUpdates
           = FirstWorking(upstream[r], Candidates(TripUpdates))
      /\ sent[r][1].body.recommendedEndpoints.vehiclePositions
           = FirstWorking(upstream[r], Candidates(VehiclePositions))
      /\ sent[r][1].body.recommendedEndpoints.alerts
           = FirstWorking(upstream[r], Candidates(ServiceAlerts))

\* A report where the first trip-updates URL is down and the second works,
\* only the last vehicle-positions URL works, and no alerts URL works.
C7_Witness ==
  \E r \in Requests :
    /\ IsDiscover(r) /\ Done(r)
    /\ sent[r][1].body.recommendedEndpoints.tripUpdates = TripUpdatesUrls[2]
    /\ ~Success(upstream[r][TripUpdatesUrls[1]])
    /\ Success(upstream[r][TripUpdatesUrls[3]])
    /\ sent[r][1].body.recommendedEndpoints.vehiclePositions = VehiclePositionsUrls[3]
    /\ sent[r][1].body.recommendedEndpoints.alerts = "None found"

(***************************************************************************)
(* C8.  /discover-urls probes every configured URL exactly once, whatever  *)
(* the other probes end in, and reports one entry per URL whose `working`  *)
(* flag is true exactly when the probe answered 2xx; a probe that threw is *)
(* reported with status 'error'.                                           *)
(***************************************************************************)
C8_EveryUrlProbedOnce ==
  \A r \in Requests :
    IsDiscover(r) =>
      /\ \A i, j \in DOMAIN fetched[r] : fetched[r][i] = fetched[r][j] => i = j
      /\ Done(r) =>
           /\ Range(fetched[r]) = Range(urlPatterns)
           /\ Len(sent[r]) = 1
           /\ LET checks == sent[r][1].body.urlChecks
              IN /\ Len(checks) = Len(urlPatterns)
                 /\ \A i \in DOMAIN urlPatterns :
                      \E j \in DOMAIN checks :
                        /\ checks[j][1] = urlPatterns[i]
                        /\ \A l \in DOMAIN checks : checks[l][1] = urlPatterns[i] => l = j
                        /\ checks[j][2].working <=> Success(upstream[r][urlPatterns[i]])
                        /\ TransportError(upstream[r][urlPatterns[i]])
                             => checks[j][2].status = "error"
                        /\ ~TransportError(upstream[r][urlPatterns[i]])
                             => checks[j][2].status = upstream[r][urlPatterns[i]].status

\* A report made although the first probe timed out and the second answered
\* 404, with a working URL found after them.
C8_Witness ==
  \E r \in Requests :
    /\ IsDiscover(r) /\ Done(r)
    /\ TransportError(upstream[r][urlPatterns[1]])
    /\ HttpError(upstream[r][urlPatterns[2]])
    /\ Success(upstream[r][urlPatterns[Len(urlPatterns)]])
    /\ Len(sent[r][1].body.urlChecks) = Len(urlPatterns)

(***************************************************************************)
(* C9.  Every fetch settling in the end, every request received is         *)
(* answered: from then on it has exactly one reply, and at no time more    *)
(* than one.                                                               *)
(***************************************************************************)
C9_AnsweredExactlyOnce ==
  /\ [](\A r \in Requests : Len(sent[r]) <= 1)
  /\ [][\A r \in Requests : Len(sent[r]) = 1 => Len(sent'[r]) = 1]_vars
  /\ \A r \in Requests : (pc[r] # "idle") ~> (Len(sent[r]) = 1)

\* A request whose last fetch timed out (a feed request cut short by it, or
\* a /discover-urls request whose last probe threw): answered, once.
C9_Witness ==
  \E r \in Requests :
    /\ Done(r)
    /\ Len(sent[r]) = 1
    /\ TransportError(FetchOutcome(r, Len(fetched[r])))

(***************************************************************************)
(* C10.  Requests handled concurrently do not affect each other: the reply *)
(* of a request is the reply the same request gets when handled alone with *)
(* the same fetch outcomes, and a request never has two fetches in flight. *)
(***************************************************************************)
RECURSIVE AloneFeed(_, _, _, _)
AloneFeed(e, u, k, rs) ==
  LET o == u[Candidates(e)[k]]
  IN IF TransportError(o) THEN CatchReply(e, o.message)
     ELSE IF HttpError(o)
       THEN IF k < Len(Candidates(e)) THEN AloneFeed(e, u, k + 1, Append(rs, o))
            ELSE CatchReply(e, AllFailed(e, Append(rs, o)))
     ELSE IF arrayBuffer(o).thrown THEN CatchReply(e, arrayBuffer(o).message)
     ELSE IF decode(o.body).thrown THEN CatchReply(e, decode(o.body).message)
     ELSE FeedReply(decode(o.body).feed)

AloneDiscover(u) ==
  DiscoverReply([i \in DOMAIN urlPatterns |->
                   <<urlPatterns[i], ProbeEntry(u[urlPatterns[i]])>>])

Alone(e, u) == IF e = DiscoverUrls THEN AloneDiscover(u) ELSE AloneFeed(e, u, 1, << >>)

C10_RequestsIndependent ==
  \A r \in Requests :
    /\ Len(inflight[r]) <= 1
    /\ Done(r) => sent[r] = << Alone(endpoint[r], upstream[r]) >>

\* Two /discover-urls requests seeing different upstream states: one is
\* answered while the other is still probing.
C10_Witness ==
  \E r, q \in Requests :
    /\ r # q
    /\ IsDiscover(r) /\ Done(r)
    /\ IsDiscover(q) /\ pc[q] = "probe" /\ attempt[q] > 1
    /\ upstream[r] # upstream[q]
    /\ Len(inflight[q]) = 1
====
